---------------------------- MODULE Spec2Model ----------------------------
(***************************************************************************)
(* A model of 3-timeseries/fbprophet.ipynb: the notebook's code cells, in  *)
(* the order the kernel runs them, the data frames they build, the objects *)
(* they create on the managed platform (S3 objects, training job, tuning   *)
(* job, endpoints) and the requests they send.                             *)
(*                                                                         *)
(* Dates are proleptic Gregorian ordinals, as datetime.toordinal gives     *)
(* them; a timestamp is a number of hours, ordinal * 24 + hour.            *)
(***************************************************************************)
EXTENDS Integers, Sequences, FiniteSets, TLC

VARIABLES
    csv,            \* the rows of the downloaded CSV file, in file order
    df,             \* the data frame of cell "load": rows with their index
    train,          \* the frame of rows (ds, y) before 2016
    test,           \* the frame of rows (ds, y) from 2016 on
    m,              \* the locally fitted model
    forecast,       \* the local forecast
    s3,             \* the bucket: key -> body
    model_data,     \* prophet_estimator.model_data
    endpoints,      \* the live endpoints: name -> the model artifact served
    deployed,       \* the names of all endpoints ever deployed
    predictor,      \* the endpoint name the variable predictor holds
    lastRequest,    \* the last request an endpoint received
    predictions,    \* the notebook's variable predictions
    predictions_df, \* the notebook's variable predictions_df
    tuner,          \* the tuning job on the platform
    pc,             \* the index in Cells of the next cell to run
    failed,         \* "none", or why the run stopped
    attempts        \* cell name -> how many times it was started

vars == << csv, df, train, test, m, forecast, s3, model_data, endpoints,
           deployed, predictor, lastRequest, predictions, predictions_df,
           tuner, pc, failed, attempts >>

dataVars == << csv, df, train, test, m, forecast >>
platformVars == << s3, model_data, endpoints, deployed, predictor, tuner >>
serveVars == << lastRequest, predictions, predictions_df >>

\* a number is << numerator, denominator >>; NaN is 0 / 0
NaN == << 0, 0 >>
Num(n) == << n, 1 >>

(***************************************************************************)
(* Bounds of the model.                                                    *)
(***************************************************************************)
MaxRows == 3        \* rows of a generated CSV file
DataSpan == 3       \* days on each side of 2016-01-01 a generated row may lie on
ReqSpan == 1        \* days around each anchor date a generated request may name
MaxRmse == 2        \* a tuning job reports an rmse in 1..MaxRmse

(***************************************************************************)
(* The calendar of datetime / pandas.Timestamp.                            *)
(***************************************************************************)
IsLeap(y) == (y % 4 = 0 /\ y % 100 # 0) \/ y % 400 = 0

DaysInMonth(y, mo) ==
    IF mo = 2 THEN (IF IsLeap(y) THEN 29 ELSE 28)
    ELSE IF mo \in {4, 6, 9, 11} THEN 30 ELSE 31

DaysBeforeYear(y) ==
    (y - 1) * 365 + ((y - 1) \div 4) - ((y - 1) \div 100) + ((y - 1) \div 400)

RECURSIVE DaysBeforeMonth(_, _)
DaysBeforeMonth(y, mo) ==
    IF mo = 1 THEN 0 ELSE DaysBeforeMonth(y, mo - 1) + DaysInMonth(y, mo - 1)

\* datetime(y, mo, d).toordinal()
ToOrdinal(y, mo, d) == DaysBeforeYear(y) + DaysBeforeMonth(y, mo) + d

Years == 2013 .. 2018

\* date.fromordinal(n), for the years of the data set
FromOrdinal(n) ==
    LET y == CHOOSE yy \in Years :
                 DaysBeforeYear(yy) < n /\ n <= DaysBeforeYear(yy + 1)
        mo == CHOOSE mm \in 1 .. 12 :
                 /\ DaysBeforeMonth(y, mm) < n - DaysBeforeYear(y)
                 /\ n - DaysBeforeYear(y) <= DaysBeforeMonth(y, mm) + DaysInMonth(y, mm)
    IN  [year |-> y, month |-> mo, day |-> n - DaysBeforeYear(y) - DaysBeforeMonth(y, mo)]

\* datetime(x.year, x.month, x.day, x.hour), as hours
RowIndex(x) == ToOrdinal(x.year, x.month, x.day) * 24 + x.hour

\* the day a timestamp falls on, as the timestamp of its midnight
DayOf(ts) == (ts \div 24) * 24


(***************************************************************************)
(* The generated inputs.                                                   *)
(***************************************************************************)
SplitYear == 2016

Boundary == ToOrdinal(SplitYear, 1, 1)

\* the hourly samples a generated day may hold, as << hour, PM2.5 >>: the first
\* hour with a reading, the last hour with and without one
Samples == { << 0, Num(10) >>, << 23, Num(10) >>, << 23, NaN >> }

\* the rows a generated CSV file may hold: year, month, day, hour and PM2.5
CsvRows ==
    { [year |-> FromOrdinal(o).year, month |-> FromOrdinal(o).month,
       day |-> FromOrdinal(o).day, hour |-> x[1], PM25 |-> x[2]] :
        o \in (Boundary - DataSpan) .. (Boundary + DataSpan - 1), x \in Samples }

\* the generated CSV files of n rows
CsvFiles(n) == [1 .. n -> CsvRows]

CsvRow(o, h, v) ==
    [year |-> FromOrdinal(o).year, month |-> FromOrdinal(o).month,
     day |-> FromOrdinal(o).day, hour |-> h, PM25 |-> v]

\* a small stand-in for the Changping file: every day present, some readings missing
SampleCsv ==
    << CsvRow(Boundary - 2, 0, Num(10)), CsvRow(Boundary - 1, 0, Num(10)),
       CsvRow(Boundary - 1, 23, NaN), CsvRow(Boundary, 0, Num(10)),
       CsvRow(Boundary + 1, 0, NaN) >>

(***************************************************************************)
(* pandas: selection, resampling to daily means, forward fill.             *)
(***************************************************************************)
RECURSIVE SelectSeq2(_, _)
SelectSeq2(s, keep) ==
    IF s = << >> THEN << >>
    ELSE IF keep[1] THEN << Head(s) >> \o SelectSeq2(Tail(s), Tail(keep))
         ELSE SelectSeq2(Tail(s), Tail(keep))

\* df.loc[mask, "PM2.5"]: the rows where mask holds, as (index, value), in row order
Loc(frame, mask) ==
    LET rows == SelectSeq2(frame, [i \in 1 .. Len(frame) |-> mask[i]])
    IN  [i \in 1 .. Len(rows) |-> [index |-> rows[i].index, value |-> rows[i].PM25]]

MinOf(S) == CHOOSE x \in S : \A y \in S : x <= y
MaxOf(S) == CHOOSE x \in S : \A y \in S : x >= y

RECURSIVE SumCount(_, _)
\* << sum, count >> of the values of series that fall on day and are not NaN
SumCount(series, day) ==
    IF series = << >> THEN << 0, 0 >>
    ELSE LET rest == SumCount(Tail(series), day)
             x == Head(series)
         IN  IF DayOf(x.index) = day /\ x.value # NaN
             THEN << rest[1] + x.value[1], rest[2] + 1 >>
             ELSE rest

\* the mean of a day's bin: NaN for a bin with no value, else sum over count
Mean(series, day) ==
    LET sc == SumCount(series, day) IN IF sc[2] = 0 THEN NaN ELSE sc

RECURSIVE SortedDays(_)
SortedDays(S) ==
    IF S = {} THEN << >> ELSE << MinOf(S) >> \o SortedDays(S \ {MinOf(S)})

\* a grouping by day, which has no row for a day without input rows
GroupByDay(series) ==
    LET days == SortedDays({ DayOf(series[i].index) : i \in 1 .. Len(series) })
    IN  [i \in 1 .. Len(days) |-> [ds |-> days[i], y |-> Mean(series, days[i])]]

\* series.resample("1D").mean().reset_index().rename(columns=...): one row per day
\* from the first to the last day of the series, whatever the order of the series
Resample(series) ==
    IF series = << >> THEN << >>
    ELSE LET days == { DayOf(series[i].index) : i \in 1 .. Len(series) }
             lo == MinOf(days)
             hi == MaxOf(days)
         IN  [i \in 1 .. ((hi - lo) \div 24) + 1 |->
                 [ds |-> lo + 24 * (i - 1), y |-> Mean(series, lo + 24 * (i - 1))]]

RECURSIVE Ffill(_)
\* frame.fillna(method="ffill"): a NaN takes the last value above it, if any
Ffill(frame) ==
    IF Len(frame) <= 1 THEN frame
    ELSE LET front == Ffill(SubSeq(frame, 1, Len(frame) - 1))
             last == frame[Len(frame)]
         IN  Append(front,
                    IF last.y = NaN THEN [last EXCEPT !.y = front[Len(front)].y]
                    ELSE last)

\* a split that puts the rows of 2016 on both sides
TrainMaskInclusive(frame) == [i \in 1 .. Len(frame) |-> frame[i].year <= SplitYear]

TrainMask(frame) == [i \in 1 .. Len(frame) |-> frame[i].year < SplitYear]
TestMask(frame) == [i \in 1 .. Len(frame) |-> frame[i].year >= SplitYear]

TrainFrame(frame) == Ffill(Resample(Loc(frame, TrainMask(frame))))
TestFrame(frame) == Ffill(Resample(Loc(frame, TestMask(frame))))

\* frame.to_csv(index=False): the header line, then one line per row
ToCsv(frame) == << << "ds", "y" >> >> \o [i \in 1 .. Len(frame) |-> << frame[i].ds, frame[i].y >>]

(***************************************************************************)
(* The code cells, in notebook order.                                      *)
(***************************************************************************)
Cells ==
    << "load", "resample", "fit_local", "predict_local", "upload",
       "train_remote", "deploy", "predict", "to_frame", "delete_endpoint",
       "tuner_fit", "describe", "redeploy", "predict2", "delete_endpoint2" >>

CellNames == { Cells[i] : i \in 1 .. Len(Cells) }

IndexOf(c) == CHOOSE i \in 1 .. Len(Cells) : Cells[i] = c

\* a kernel that goes on running cells after an exception
AtCellAllowErrors(c) == pc = IndexOf(c)

\* the kernel is about to run cell c
AtCell(c) == pc = IndexOf(c) /\ failed = "none"

\* cell c ran to its end: the kernel goes on to the next cell
Returns(c) ==
    /\ pc' = pc + 1
    /\ failed' = failed
    /\ attempts' = [attempts EXCEPT ![c] = @ + 1]

\* cell c raised: the kernel stops the run, nothing catches the exception
Raises(c, why) ==
    /\ pc' = pc
    /\ failed' = why
    /\ attempts' = [attempts EXCEPT ![c] = @ + 1]

(***************************************************************************)
(* Data preparation and local training.                                    *)
(***************************************************************************)
\* df = pd.read_csv(data); df.index = df.apply(lambda x: datetime(...), axis=1)
LoadFrame(rows) ==
    [i \in 1 .. Len(rows) |->
        [year |-> rows[i].year, month |-> rows[i].month, day |-> rows[i].day,
         hour |-> rows[i].hour, PM25 |-> rows[i].PM25, index |-> RowIndex(rows[i])]]

CellLoad ==
    /\ AtCell("load")
    /\ df' = LoadFrame(csv)
    /\ Returns("load")
    /\ UNCHANGED << csv, train, test, m, forecast >>
    /\ UNCHANGED << platformVars, serveVars >>

\* train = ...; test = ...; train.fillna(...); test.fillna(...)
CellResample ==
    /\ AtCell("resample")
    /\ train' = TrainFrame(df)
    /\ test' = TestFrame(df)
    /\ Returns("resample")
    /\ UNCHANGED << csv, df, m, forecast >>
    /\ UNCHANGED << platformVars, serveVars >>

NonNaNRows(frame) == { i \in 1 .. Len(frame) : frame[i].y # NaN }

\* m = Prophet(); m.fit(train): fit refuses a frame with fewer than 2 non-NaN rows
CellFitLocal ==
    /\ AtCell("fit_local")
    /\ IF Cardinality(NonNaNRows(train)) < 2
       THEN Raises("fit_local", "ValueError") /\ m' = m
       ELSE Returns("fit_local") /\ m' = [fitted |-> TRUE, history |-> train]
    /\ UNCHANGED << csv, df, train, test, forecast >>
    /\ UNCHANGED << platformVars, serveVars >>

\* future = m.make_future_dataframe(periods=test.shape[0], include_history=False)
\* forecast = m.predict(future): the days after the last day of the history
LocalForecast(model, periods) ==
    [i \in 1 .. periods |-> model.history[Len(model.history)].ds + 24 * i]

\* predict refuses a frame with no rows
CellPredictLocal ==
    /\ AtCell("predict_local")
    /\ IF Len(test) = 0
       THEN Raises("predict_local", "ValueError") /\ forecast' = forecast
       ELSE /\ Returns("predict_local")
            /\ forecast' = LocalForecast(m, Len(test))
    /\ UNCHANGED << csv, df, train, test, m >>
    /\ UNCHANGED << platformVars, serveVars >>


(***************************************************************************)
(* Training remotely.                                                      *)
(***************************************************************************)
TrainKey == "air-quality-prophet/train.csv"
TestKey == "air-quality-prophet/test.csv"

NoArtifact == [origin |-> "none", objective |-> 0]

\* for name, data_set in zip(["train","test"],[train, test]): upload_string_as_file_body
CellUpload ==
    /\ AtCell("upload")
    /\ s3' = [s3 EXCEPT ![TrainKey] = ToCsv(train), ![TestKey] = ToCsv(test)]
    /\ Returns("upload")
    /\ UNCHANGED << dataVars, serveVars >>
    /\ UNCHANGED << model_data, endpoints, deployed, predictor, tuner >>

\* the second upload of the loop raises: train.csv is stored, test.csv is not
CellUploadRaises ==
    /\ AtCell("upload")
    /\ s3' = [s3 EXCEPT ![TrainKey] = ToCsv(train)]
    /\ Raises("upload", "raised")
    /\ UNCHANGED << dataVars, serveVars >>
    /\ UNCHANGED << model_data, endpoints, deployed, predictor, tuner >>

\* prophet_estimator.fit({"train": train_data_path}): waits for the training job,
\* which reads the train channel and stores the model artifact
CellTrainRemote ==
    /\ AtCell("train_remote")
    /\ IF Len(s3[TrainKey]) = 0
       THEN Raises("train_remote", "ClientError") /\ model_data' = model_data
       ELSE /\ Returns("train_remote")
            /\ model_data' = [origin |-> "training", objective |-> 0]
    /\ UNCHANGED << dataVars, serveVars >>
    /\ UNCHANGED << s3, endpoints, deployed, predictor, tuner >>

(***************************************************************************)
(* Model serving.                                                          *)
(***************************************************************************)
\* SKLearnModel(model_data=artifact, ...).deploy(...): a new endpoint serving artifact
Deploy(c, artifact) ==
    IF artifact.origin = "none"
    THEN /\ Raises(c, "ClientError")
         /\ UNCHANGED << endpoints, deployed, predictor >>
    ELSE /\ Returns(c)
         /\ predictor' = Cardinality(deployed) + 1
         /\ deployed' = deployed \cup {predictor'}
         /\ endpoints' = endpoints \cup {[name |-> predictor', model |-> artifact]}

\* prophet_model = SKLearnModel(model_data = prophet_estimator.model_data, ...)
\* predictor = prophet_model.deploy(...)
CellDeploy ==
    /\ AtCell("deploy")
    /\ Deploy("deploy", model_data)
    /\ UNCHANGED << dataVars, serveVars >>
    /\ UNCHANGED << s3, model_data, tuner >>

Live(name) == \E e \in endpoints : e.name = name
Serving(name) == (CHOOSE e \in endpoints : e.name = name).model

\* the request of the two predict cells: month-day-year
NotebookRequest == [start |-> << 1, 1, 2016 >>, end |-> << 2, 28, 2017 >>]
NoRequest == [start |-> << 0, 0, 0 >>, end |-> << 0, 0, 0 >>]

\* pandas reads "1-1-2016" month first
ParseDate(t) == ToOrdinal(t[3], t[1], t[2])

\* a serving script that forecasts a fixed horizon from start, whatever end is
ServePredictHorizon(artifact, req) ==
    [i \in 1 .. 3 |->
        [ds |-> FromOrdinal(ParseDate(req.start) + i - 1), yhat_lower |-> Num(0),
         yhat_upper |-> Num(2), yhat |-> Num(1)]]

\* a serving script that returns the point forecast alone
ServePredictPoint(artifact, req) ==
    LET first == ParseDate(req.start)
        n == ParseDate(req.end) - first + 1
    IN  [i \in 1 .. (IF n > 0 THEN n ELSE 0) |->
            [ds |-> FromOrdinal(first + i - 1), yhat |-> Num(1)]]

\* serve.py: one prediction per day from start to end
ServePredict(artifact, req) ==
    LET first == ParseDate(req.start)
        n == ParseDate(req.end) - first + 1
    IN  [i \in 1 .. (IF n > 0 THEN n ELSE 0) |->
            [ds |-> FromOrdinal(first + i - 1), yhat_lower |-> Num(0),
             yhat_upper |-> Num(2), yhat |-> Num(1)]]

\* predictions = predictor.predict(req)
Predict(c, req) ==
    IF ~Live(predictor)
    THEN /\ Raises(c, "ClientError")
         /\ UNCHANGED << lastRequest, predictions >>
    ELSE /\ lastRequest' = req
         /\ predictions' = ServePredict(Serving(predictor), req)

\* predictions_df = pd.DataFrame(predictions)
\* predictions_df["ds"] = pd.to_datetime(predictions_df["ds"])
ToFrame(preds) ==
    [i \in 1 .. Len(preds) |->
        [preds[i] EXCEPT !.ds = ToOrdinal(preds[i].ds.year, preds[i].ds.month,
                                          preds[i].ds.day) * 24]]

CellPredictWith(req) ==
    /\ AtCell("predict")
    /\ Predict("predict", req)
    /\ Live(predictor) => Returns("predict")
    /\ UNCHANGED << dataVars, platformVars, predictions_df >>

CellPredict == CellPredictWith(NotebookRequest)

\* an empty list gives a frame with no column ds
CellToFrame ==
    /\ AtCell("to_frame")
    /\ IF predictions = << >>
       THEN Raises("to_frame", "KeyError") /\ predictions_df' = predictions_df
       ELSE Returns("to_frame") /\ predictions_df' = ToFrame(predictions)
    /\ UNCHANGED << dataVars, platformVars, lastRequest, predictions >>

\* a delete that leaves the endpoint in service
DeleteEndpointKept(c) == Returns(c) /\ endpoints' = endpoints

\* predictor.delete_endpoint()
DeleteEndpoint(c) ==
    IF ~Live(predictor)
    THEN Raises(c, "ClientError") /\ endpoints' = endpoints
    ELSE Returns(c) /\ endpoints' = { e \in endpoints : e.name # predictor }

CellDeleteEndpoint ==
    /\ AtCell("delete_endpoint")
    /\ DeleteEndpoint("delete_endpoint")
    /\ UNCHANGED << dataVars, serveVars >>
    /\ UNCHANGED << s3, model_data, deployed, predictor, tuner >>


(***************************************************************************)
(* Hyperparameter optimization.                                            *)
(***************************************************************************)
max_jobs == 20

\* the two limits of the tuner taken for each other
max_parallel_jobs_swapped == max_jobs

max_parallel_jobs == 5

\* a horizon of the year 2016 alone, without the two months of 2017
prediction_periods_year == ToOrdinal(2017, 1, 1) - ToOrdinal(2016, 1, 1)

prediction_periods == 425

Rmses == 1 .. MaxRmse

NoTuner ==
    [status |-> "none", launched |-> 0, running |-> 0, completed |-> {},
     best |-> [found |-> FALSE, objective |-> 0]]

\* objective_type='Minimize': objective a is better than objective b
Better(a, b) == a < b

\* tuner.fit({"train": train_data_path}) creates the tuning job. Depending on the
\* SDK release the call returns at once or waits for the job: the cell returns
\* here, and the cells after it run at any later moment, the job's end included.
CellTunerFit ==
    /\ AtCell("tuner_fit")
    /\ tuner' = [NoTuner EXCEPT !.status = "InProgress"]
    /\ Returns("tuner_fit")
    /\ UNCHANGED << dataVars, serveVars >>
    /\ UNCHANGED << s3, model_data, endpoints, deployed, predictor >>

\* the platform starts a training job of the tuning job
TunerLaunch ==
    /\ tuner.status = "InProgress"
    /\ tuner.launched < max_jobs
    /\ tuner.running < max_parallel_jobs
    /\ tuner' = [tuner EXCEPT !.launched = @ + 1, !.running = @ + 1]
    /\ UNCHANGED << dataVars, serveVars, pc, failed, attempts >>
    /\ UNCHANGED << s3, model_data, endpoints, deployed, predictor >>

\* a training job completes and logs "train rmse: r"; the platform keeps the best
TunerJobCompletes ==
    /\ tuner.status = "InProgress"
    /\ tuner.running > 0
    /\ \E r \in Rmses :
         tuner' = [tuner EXCEPT
                     !.running = @ - 1,
                     !.completed = @ \cup {r},
                     !.best = IF ~tuner.best.found \/ Better(r, tuner.best.objective)
                              THEN [found |-> TRUE, objective |-> r]
                              ELSE @]
    /\ UNCHANGED << dataVars, serveVars, pc, failed, attempts >>
    /\ UNCHANGED << s3, model_data, endpoints, deployed, predictor >>

\* a training job fails: it reports no objective
TunerJobFails ==
    /\ tuner.status = "InProgress"
    /\ tuner.running > 0
    /\ tuner' = [tuner EXCEPT !.running = @ - 1]
    /\ UNCHANGED << dataVars, serveVars, pc, failed, attempts >>
    /\ UNCHANGED << s3, model_data, endpoints, deployed, predictor >>

\* all max_jobs jobs were started and have ended: the tuning job is over
TunerFinish ==
    /\ tuner.status = "InProgress"
    /\ tuner.launched = max_jobs
    /\ tuner.running = 0
    /\ tuner' = [tuner EXCEPT !.status = "Completed"]
    /\ UNCHANGED << dataVars, serveVars, pc, failed, attempts >>
    /\ UNCHANGED << s3, model_data, endpoints, deployed, predictor >>

TunerStep == TunerLaunch \/ TunerJobCompletes \/ TunerJobFails \/ TunerFinish

\* sess.describe_tuning_job(tuner.latest_tuning_job.job_name)
CellDescribe ==
    /\ AtCell("describe")
    /\ IF tuner.status = "none"
       THEN Raises("describe", "ClientError")
       ELSE Returns("describe")
    /\ UNCHANGED << dataVars, platformVars, serveVars >>

\* best_job = sess.describe_tuning_job(...)["BestTrainingJob"]["TrainingJobName"]
\* best_model = sess.describe_training_job(best_job)['ModelArtifacts']['S3ModelArtifacts']
BestModel == [origin |-> "tuning", objective |-> tuner.best.objective]

\* the description of a tuning job with no completed job has no BestTrainingJob
CellRedeploy ==
    /\ AtCell("redeploy")
    /\ IF ~tuner.best.found
       THEN /\ Raises("redeploy", "KeyError")
            /\ UNCHANGED << endpoints, deployed, predictor >>
       ELSE Deploy("redeploy", BestModel)
    /\ UNCHANGED << dataVars, serveVars >>
    /\ UNCHANGED << s3, model_data, tuner >>

\* predictions = predictor.predict(...); predictions_df = ...
CellPredict2With(req) ==
    /\ AtCell("predict2")
    /\ Predict("predict2", req)
    /\ Live(predictor) =>
         IF predictions' = << >>
         THEN Raises("predict2", "KeyError") /\ predictions_df' = predictions_df
         ELSE Returns("predict2") /\ predictions_df' = ToFrame(predictions')
    /\ ~Live(predictor) => predictions_df' = predictions_df
    /\ UNCHANGED << dataVars, platformVars >>

CellPredict2 == CellPredict2With(NotebookRequest)

CellDeleteEndpoint2 ==
    /\ AtCell("delete_endpoint2")
    /\ DeleteEndpoint("delete_endpoint2")
    /\ UNCHANGED << dataVars, serveVars >>
    /\ UNCHANGED << s3, model_data, deployed, predictor, tuner >>

(***************************************************************************)
(* A cell that calls out (the archive, S3, the platform) raises when the   *)
(* call fails. No cell catches an exception.                               *)
(***************************************************************************)
CallingCells ==
    { "load", "upload", "train_remote", "deploy", "predict", "delete_endpoint",
      "tuner_fit", "describe", "redeploy", "predict2", "delete_endpoint2" }

CellRaises ==
    \E c \in CallingCells :
        /\ AtCell(c)
        /\ Raises(c, "raised")
        /\ UNCHANGED << dataVars, platformVars, serveVars >>

(***************************************************************************)
(* The specifications.                                                     *)
(***************************************************************************)
InitRest ==
    /\ df = << >>
    /\ train = << >>
    /\ test = << >>
    /\ m = [fitted |-> FALSE, history |-> << >>]
    /\ forecast = << >>
    /\ s3 = [k \in {TrainKey, TestKey} |-> << >>]
    /\ model_data = NoArtifact
    /\ endpoints = {}
    /\ deployed = {}
    /\ predictor = 0
    /\ lastRequest = NoRequest
    /\ predictions = << >>
    /\ predictions_df = << >>
    /\ tuner = NoTuner
    /\ pc = 1
    /\ failed = "none"
    /\ attempts = [c \in CellNames |-> 0]

\* the notebook, run from its first cell on the sample file
Init == csv = SampleCsv /\ InitRest

Next ==
    \/ CellLoad
    \/ CellResample
    \/ CellFitLocal
    \/ CellPredictLocal
    \/ CellUpload
    \/ CellUploadRaises
    \/ CellTrainRemote
    \/ CellDeploy
    \/ CellPredict
    \/ CellToFrame
    \/ CellDeleteEndpoint
    \/ CellTunerFit
    \/ TunerLaunch
    \/ TunerJobCompletes
    \/ TunerJobFails
    \/ TunerFinish
    \/ CellDescribe
    \/ CellRedeploy
    \/ CellPredict2
    \/ CellDeleteEndpoint2
    \/ CellRaises

Spec == Init /\ [][Next]_vars

\* the platform runs the tuning job on: its steps are not starved
FairSpec == Spec /\ WF_vars(TunerStep)

\* the data cells, on every generated file
InitData == (\E n \in 1 .. MaxRows : csv \in CsvFiles(n)) /\ InitRest

NextData ==
    \/ CellLoad
    \/ CellResample
    \/ CellFitLocal
    \/ CellPredictLocal
    \/ CellUpload
    \/ CellUploadRaises

SpecData == InitData /\ [][NextData]_vars


(***************************************************************************)
(* The train / test split.                                                 *)
(***************************************************************************)
Resampled == pc > IndexOf("resample")

FrameDays(frame) == { frame[i].ds : i \in 1 .. Len(frame) }

InputDays == { DayOf(df[i].index) : i \in 1 .. Len(df) }

\* every calendar day from the first to the last day of the input
RangeDays ==
    { MinOf(InputDays) + 24 * k : k \in 0 .. ((MaxOf(InputDays) - MinOf(InputDays)) \div 24) }

NewYear == Boundary * 24

DaysBefore == { d \in InputDays : d < NewYear }
DaysFrom == { d \in InputDays : d >= NewYear }

\* the input's last day before 2016 and its first day of 2016 or later are
\* consecutive days, or the input lies on one side of the new year
NoGapAtSplit ==
    \/ DaysBefore = {}
    \/ DaysFrom = {}
    \/ MaxOf(DaysBefore) + 24 = MinOf(DaysFrom)

SplitDisjoint == FrameDays(train) \cap FrameDays(test) = {}

SplitCovers == \A d \in RangeDays : d \in FrameDays(train) \cup FrameDays(test)

\* C1, as stated: for any input table no date is in both frames and every day
\* from the first to the last day of the input is in one of them.
C1_AnyTableCovered == Resampled => SplitDisjoint /\ SplitCovers

\* C1, amended: for any input table no date is in both frames; every day from the
\* first to the last day of the input is in exactly one of them if and only if
\* the input has no missing day at the turn of the year 2016.
C1_SplitDisjointCoversNoGap ==
    Resampled => SplitDisjoint /\ (NoGapAtSplit <=> SplitCovers)

\* C1's case: rows on both sides of the new year, none missing at the turn of the
\* year, and a day without rows inside the range
C1_Witness ==
    /\ Resampled
    /\ train # << >>
    /\ test # << >>
    /\ NoGapAtSplit
    /\ RangeDays # InputDays

\* consecutive rows of the frame are exactly one day apart
Daily(frame) == \A i \in 1 .. Len(frame) - 1 : frame[i + 1].ds = frame[i].ds + 24

\* the same of the lines of an uploaded CSV body, below its header
DailyCsv(body) == \A i \in 2 .. Len(body) - 1 : body[i + 1][1] = body[i][1] + 24

\* C4: the dates of the train and the test frame, as built, as fitted and as
\* uploaded, are strictly increasing and one day apart, whatever the input's order.
C4_FramesDaily ==
    /\ Resampled => Daily(train) /\ Daily(test)
    /\ m.fitted => Daily(m.history) /\ m.history = train
    /\ DailyCsv(s3[TrainKey])
    /\ DailyCsv(s3[TestKey])
    /\ Len(s3[TrainKey]) > 0 => Len(s3[TrainKey]) = Len(train) + 1
    /\ Len(s3[TestKey]) > 0 => Len(s3[TestKey]) = Len(test) + 1

\* C4's case: a file whose rows are out of order and skip a day was fitted and uploaded
C4_Witness ==
    /\ Len(s3[TestKey]) > 0
    /\ Len(train) >= 3
    /\ \E i \in 1 .. Len(df) - 1 : df[i].index > df[i + 1].index
    /\ RangeDays # InputDays


(***************************************************************************)
(* Requests to an endpoint. The predict cells send NotebookRequest; the    *)
(* endpoint answers any request of the same shape.                         *)
(***************************************************************************)
AnchorDays == { ToOrdinal(2016, 1, 1), ToOrdinal(2016, 2, 29), ToOrdinal(2017, 2, 28) }

RequestDays == { o \in MinOf(AnchorDays) - ReqSpan .. MaxOf(AnchorDays) + ReqSpan :
                   \E a \in AnchorDays : o - a \in (0 - ReqSpan) .. ReqSpan }

Mdy(o) == << FromOrdinal(o).month, FromOrdinal(o).day, FromOrdinal(o).year >>

Requests == { [start |-> Mdy(a), end |-> Mdy(b)] : a, b \in RequestDays }

\* the state in which cell "predict" is about to run on the sample file
BeforePredict ==
    /\ csv = SampleCsv
    /\ df = LoadFrame(csv)
    /\ train = TrainFrame(df)
    /\ test = TestFrame(df)
    /\ m = [fitted |-> TRUE, history |-> train]
    /\ forecast = LocalForecast(m, Len(test))
    /\ s3 = [k \in {TrainKey, TestKey} |-> IF k = TrainKey THEN ToCsv(train) ELSE ToCsv(test)]
    /\ model_data = [origin |-> "training", objective |-> 0]
    /\ endpoints = {[name |-> 1, model |-> model_data]}
    /\ deployed = {1}
    /\ predictor = 1
    /\ lastRequest = NoRequest
    /\ predictions = << >>
    /\ predictions_df = << >>
    /\ tuner = NoTuner
    /\ pc = IndexOf("predict")
    /\ failed = "none"
    /\ attempts = [c \in CellNames |-> IF IndexOf(c) < pc THEN 1 ELSE 0]

\* the states in which cell "predict2" is about to run after the tuning job's end
BeforePredict2 ==
    /\ csv = SampleCsv
    /\ df = LoadFrame(csv)
    /\ train = TrainFrame(df)
    /\ test = TestFrame(df)
    /\ m = [fitted |-> TRUE, history |-> train]
    /\ forecast = LocalForecast(m, Len(test))
    /\ s3 = [k \in {TrainKey, TestKey} |-> IF k = TrainKey THEN ToCsv(train) ELSE ToCsv(test)]
    /\ model_data = [origin |-> "training", objective |-> 0]
    /\ lastRequest = NotebookRequest
    /\ predictions = ServePredict(model_data, NotebookRequest)
    /\ predictions_df = ToFrame(predictions)
    /\ \E r \in Rmses :
         /\ tuner = [status |-> "Completed", launched |-> max_jobs, running |-> 0,
                     completed |-> {r}, best |-> [found |-> TRUE, objective |-> r]]
         /\ endpoints = {[name |-> 2, model |-> [origin |-> "tuning", objective |-> r]]}
    /\ deployed = {1, 2}
    /\ predictor = 2
    /\ pc = IndexOf("predict2")
    /\ failed = "none"
    /\ attempts = [c \in CellNames |-> IF IndexOf(c) < pc THEN 1 ELSE 0]

InitServe == BeforePredict \/ BeforePredict2

NextServe ==
    \/ \E req \in Requests : CellPredictWith(req)
    \/ CellToFrame
    \/ \E req \in Requests : CellPredict2With(req)

SpecServe == InitServe /\ [][NextServe]_vars


(***************************************************************************)
(* The prediction response.                                                *)
(***************************************************************************)
\* calendar order of two dates given as << year, month, day >>
DateLeq(a, b) ==
    \/ a[1] < b[1]
    \/ a[1] = b[1] /\ a[2] < b[2]
    \/ a[1] = b[1] /\ a[2] = b[2] /\ a[3] <= b[3]

Ymd(t) == << t[3], t[1], t[2] >>
DsYmd(p) == << p.ds.year, p.ds.month, p.ds.day >>

\* every date of the calendar, as << year, month, day >>
CalendarDates ==
    UNION { { << y, mo, d >> : d \in 1 .. DaysInMonth(y, mo) } : y \in Years, mo \in 1 .. 12 }

\* the days from the request's start to its end
DaysInRange(req) ==
    { d \in CalendarDates : DateLeq(Ymd(req.start), d) /\ DateLeq(d, Ymd(req.end)) }

Answered == lastRequest # NoRequest

\* C2: every date of a response lies between the request's start and end.
C2_DatesWithinRequest ==
    Answered =>
        \A i \in 1 .. Len(predictions) :
            /\ DateLeq(Ymd(lastRequest.start), DsYmd(predictions[i]))
            /\ DateLeq(DsYmd(predictions[i]), Ymd(lastRequest.end))

\* C2's case: a request other than the notebook's, crossing the leap day, was answered
C2_Witness ==
    /\ Answered
    /\ lastRequest # NotebookRequest
    /\ \E i \in 1 .. Len(predictions) : DsYmd(predictions[i]) = << 2016, 2, 29 >>
    /\ DsYmd(predictions[Len(predictions)]) = Ymd(lastRequest.end)

\* C3: a response has one entry per day of the requested range, no day twice and
\* none skipped; the notebook's request has prediction_periods days.
C3_OneEntryPerDay ==
    Answered =>
        /\ Len(predictions) = Cardinality(DaysInRange(lastRequest))
        /\ { DsYmd(predictions[i]) : i \in 1 .. Len(predictions) } = DaysInRange(lastRequest)
        /\ lastRequest = NotebookRequest => Len(predictions) = prediction_periods

\* C3's case: the notebook's request was answered by the first endpoint
C3_Witness ==
    /\ lastRequest = NotebookRequest
    /\ pc = IndexOf("to_frame")
    /\ Len(predictions) > 0

ResponseFields == { "ds", "yhat_lower", "yhat_upper", "yhat" }

\* C6: every entry of a response has exactly the fields ds, yhat_lower, yhat_upper
\* and yhat, on the endpoint of the trained model and on that of the tuned model.
C6_ResponseFields ==
    Answered => \A i \in 1 .. Len(predictions) : DOMAIN predictions[i] = ResponseFields

\* C6's case: the endpoint of the tuned model answered a request with some days
C6_Witness ==
    /\ Answered
    /\ pc > IndexOf("predict2")
    /\ \E e \in endpoints : e.name = predictor /\ e.model.origin = "tuning"
    /\ Len(predictions) > 1
    /\ lastRequest # NotebookRequest


(***************************************************************************)
(* The workflow.                                                           *)
(***************************************************************************)
Finished == pc = Len(Cells) + 1

TunedEndpoints == { e \in endpoints : e.name = predictor /\ attempts["redeploy"] > 0 }

\* C5, as stated: once the search is over, the endpoint redeployed serves the
\* artifact of a completed tuning job whose rmse is minimal among all completed
\* jobs of the tuning run, never the artifact of the first training job.
C5_RedeployedIsBest ==
    tuner.status = "Completed" =>
        \A e \in TunedEndpoints :
            /\ e.model.origin = "tuning"
            /\ e.model.objective \in tuner.completed
            /\ \A r \in tuner.completed : e.model.objective <= r

\* cell c starts in this step
CellStarts(c) == attempts'[c] = attempts[c] + 1

\* what has been completed when cell c starts
Prerequisites(c) ==
    /\ \A i \in 1 .. IndexOf(c) - 1 : attempts[Cells[i]] = 1 /\ pc > i
    /\ c = "train_remote" => Len(s3[TrainKey]) > 0
    /\ c = "redeploy" => tuner.status = "Completed"

\* the artifact an endpoint serves has been stored by a job that completed
ArtifactExists(a) ==
    \/ a.origin = "training" /\ model_data = a
    \/ a.origin = "tuning" /\ a.objective \in tuner.completed

\* C7, as stated: the steps run in notebook order and no step starts before the
\* one before it has completed: the training job not before train.csv is
\* uploaded, a deployment not before its artifact exists, and the redeployment
\* not before the tuner's run is over.
C7_StrictlyLinear ==
    [][/\ \A c \in CellNames : CellStarts(c) => Prerequisites(c)
       /\ \A e \in endpoints' : ArtifactExists(e.model)']_vars

\* C8: at most 5 training jobs of the tuning job run at any moment, at most 20 are
\* ever started, and the tuning job ends, once and only once its jobs have ended.
C8_TunerBoundedAndEnds ==
    /\ [](tuner.running <= 5 /\ tuner.launched <= 20)
    /\ [](tuner.status = "Completed" => tuner.running = 0)
    /\ (tuner.status = "InProgress") ~> (tuner.status = "Completed")

\* C8's case: the 20th job was started while 4 others were still running
C8_Witness == tuner.launched = 20 /\ tuner.running = 5

C10_EndpointLifecycle ==
    /\ Cardinality(endpoints) <= 1
    /\ AtCell("predict") \/ AtCell("predict2") => Live(predictor)
    /\ Answered /\ failed = "none" => predictor \in deployed
    /\ AtCell("redeploy") => endpoints = {}
    /\ Finished => endpoints = {} /\ Cardinality(deployed) = 2

\* C10's case: the run ended without failure, after two deployments
C10_Witness ==
    /\ Finished
    /\ failed = "none"
    /\ Cardinality(deployed) = 2
    /\ attempts["predict2"] = 1

=============================================================================
